---- MODULE Spec2Model ----
(***************************************************************************)
(* liet: a terminal expense logger.  One process run parses its command    *)
(* line, opens the sqlite store and performs one arm of main's switch:     *)
(* insert, stats report, CSV export, CSV import or the wipe ("yeet").      *)
(*                                                                         *)
(* Text is modelled as TLA+ strings handled character by character.        *)
(* Costs (float64 in the code) are fixed-point integers counting           *)
(* thousandths, so 42.6 is 42600; the data sets hold no value whose third  *)
(* decimal is 5, the one place where binary rounding would matter.         *)
(* Instants (time.Time) are day numbers counted from 1970-01-01.           *)
(***************************************************************************)
EXTENDS Integers, Sequences, FiniteSets, TLC

VARIABLES
    now,       \* the current date: time.Now() as a day number
    store,     \* the transactions table, in rowid order
    nextId,    \* the next AUTOINCREMENT id
    ledger,    \* history: the insertTransaction calls made on this store
    csvFile,   \* the lines of the CSV file
    exported,  \* history: the table a successful or failed dbExport last read
    files,     \* the files that exist: "db", "config", "log", "csv"
    config,    \* the text of the config file, read when "config" exists
    out        \* what the last run was given, did and printed

vars == <<now, store, nextId, ledger, csvFile, exported, files, config, out>>

(***************************************************************************)
(* Strings                                                                 *)
(***************************************************************************)
Ch(s, i) == SubSeq(s, i, i)

Rest(s) == SubSeq(s, 2, Len(s))

\* The characters the model's texts use, in byte order.
Ascii == "\t !,-./0123456789ADEHLNPTWYabcdefghiklmnoprstuwxyz"

Ord(c) == CHOOSE i \in 1..Len(Ascii) : Ch(Ascii, i) = c

\* memcmp order of two texts (sqlite's BINARY collation, Go's string <).
RECURSIVE StrLess(_, _)
StrLess(a, b) ==
    IF b = "" THEN FALSE
    ELSE IF a = "" THEN TRUE
    ELSE IF Ch(a, 1) = Ch(b, 1) THEN StrLess(Rest(a), Rest(b))
    ELSE Ord(Ch(a, 1)) < Ord(Ch(b, 1))

StrLeq(a, b) == a = b \/ StrLess(a, b)

\* strings.ReplaceAll(s, c, "") for a one-character c.
RECURSIVE ReplaceAll(_, _)
ReplaceAll(s, c) ==
    IF s = "" THEN ""
    ELSE (IF Ch(s, 1) = c THEN "" ELSE Ch(s, 1)) \o ReplaceAll(Rest(s), c)

UpperCase == "ABCDEFGHIJKLMNOPQRSTUVWXYZ"
LowerCase == "abcdefghijklmnopqrstuvwxyz"

LowerCh(c) ==
    IF \E i \in 1..Len(UpperCase) : Ch(UpperCase, i) = c
    THEN Ch(LowerCase, CHOOSE i \in 1..Len(UpperCase) : Ch(UpperCase, i) = c)
    ELSE c

RECURSIVE ToLower(_)
ToLower(s) == IF s = "" THEN "" ELSE LowerCh(Ch(s, 1)) \o ToLower(Rest(s))

IsSpace(c) == c \in {" ", "\t"}

RECURSIVE TrimLeft(_)
TrimLeft(s) == IF s /= "" /\ IsSpace(Ch(s, 1)) THEN TrimLeft(Rest(s)) ELSE s

RECURSIVE TrimRight(_)
TrimRight(s) ==
    IF s /= "" /\ IsSpace(Ch(s, Len(s))) THEN TrimRight(SubSeq(s, 1, Len(s) - 1)) ELSE s

TrimSpace(s) == TrimRight(TrimLeft(s))

\* strings.Split(s, sep) for a one-character sep: always at least one part.
RECURSIVE SplitAcc(_, _, _)
SplitAcc(s, sep, cur) ==
    IF s = "" THEN <<cur>>
    ELSE IF Ch(s, 1) = sep THEN <<cur>> \o SplitAcc(Rest(s), sep, "")
    ELSE SplitAcc(Rest(s), sep, cur \o Ch(s, 1))

Split(s, sep) == SplitAcc(s, sep, "")

Digits == "0123456789"

IsDigit(c) == \E i \in 1..10 : Ch(Digits, i) = c

DigitVal(c) == (CHOOSE i \in 1..10 : Ch(Digits, i) = c) - 1

AllDigits(s) == \A i \in 1..Len(s) : IsDigit(Ch(s, i))

RECURSIVE DigitsVal(_)
DigitsVal(s) ==
    IF s = "" THEN 0 ELSE DigitsVal(SubSeq(s, 1, Len(s) - 1)) * 10 + DigitVal(Ch(s, Len(s)))

\* %d of a natural number.
RECURSIVE NatStr(_)
NatStr(n) == IF n < 10 THEN Ch(Digits, n + 1) ELSE NatStr(n \div 10) \o Ch(Digits, (n % 10) + 1)

\* %0<w>d of a natural number.
RECURSIVE Pad(_, _)
Pad(s, w) == IF Len(s) < w THEN Pad("0" \o s, w) ELSE s

(***************************************************************************)
(* strconv.ParseFloat on the decimal forms [+-]digits[.digits] with at     *)
(* most three decimals; every other text of the data sets is not a number. *)
(* The value counts thousandths.                                           *)
(***************************************************************************)
Unsigned(s) == IF s /= "" /\ Ch(s, 1) \in {"-", "+"} THEN Rest(s) ELSE s

ParseFloatOk(s) ==
    LET p == Split(Unsigned(s), ".")
    IN  /\ Len(p) \in {1, 2}
        /\ AllDigits(p[1])
        /\ Len(p) = 2 => (AllDigits(p[2]) /\ Len(p[2]) <= 3)
        /\ p[1] /= "" \/ (Len(p) = 2 /\ p[2] /= "")

ParseFloatVal(s) ==
    LET p   == Split(Unsigned(s), ".")
        fr  == IF Len(p) = 2 THEN p[2] ELSE ""
        frv == IF Len(fr) = 0 THEN 0
               ELSE IF Len(fr) = 1 THEN DigitsVal(fr) * 100
               ELSE IF Len(fr) = 2 THEN DigitsVal(fr) * 10
               ELSE DigitsVal(fr)
        mag == DigitsVal(p[1]) * 1000 + frv
    IN  IF s /= "" /\ Ch(s, 1) = "-" THEN 0 - mag ELSE mag

\* fmt's %.2f: two decimals, rounded to the nearest hundredth.
FormatCost2(v) ==
    LET mag == IF v < 0 THEN 0 - v ELSE v
        hun == (mag + 5) \div 10
        txt == NatStr(hun \div 100) \o "." \o Pad(NatStr(hun % 100), 2)
    IN  IF v < 0 THEN "-" \o txt ELSE txt

(***************************************************************************)
(* Calendar: time.Date, Time.AddDate, Time.Weekday, Time.Format            *)
(***************************************************************************)
\* Day number of the civil date (y, m, d), m in 1..12, any d.
DaysFromCivil(y, m, d) ==
    LET yy  == IF m <= 2 THEN y - 1 ELSE y
        era == yy \div 400
        yoe == yy - era * 400
        mp  == IF m > 2 THEN m - 3 ELSE m + 9
        doy == (153 * mp + 2) \div 5 + d - 1
        doe == yoe * 365 + yoe \div 4 - yoe \div 100 + doy
    IN  era * 146097 + doe - 719468

\* The civil date <<y, m, d>> of a day number.
Civil(n) ==
    LET z   == n + 719468
        era == z \div 146097
        doe == z - era * 146097
        yoe == (doe - doe \div 1460 + doe \div 36524 - doe \div 146096) \div 365
        doy == doe - (365 * yoe + yoe \div 4 - yoe \div 100)
        mp  == (5 * doy + 2) \div 153
        d   == doy - (153 * mp + 2) \div 5 + 1
        m   == IF mp < 10 THEN mp + 3 ELSE mp - 9
        y   == yoe + era * 400 + (IF m <= 2 THEN 1 ELSE 0)
    IN  <<y, m, d>>

Year(n) == Civil(n)[1]
Month(n) == Civil(n)[2]
Day(n) == Civil(n)[3]

\* time.Date normalises a month outside 1..12 into the year, then counts days.
Date(y, m, d) ==
    LET m0 == m - 1
        yn == y + m0 \div 12
        mn == (m0 % 12) + 1
    IN  DaysFromCivil(yn, mn, 1) + d - 1

AddDate(t, years, months, days) == Date(Year(t) + years, Month(t) + months, Day(t) + days)

\* time.Weekday: Sunday = 0 .. Saturday = 6 (1970-01-01 was a Thursday).
Weekday(t) == (t + 4) % 7

\* t.Format("2006-01-02")
Format(t) ==
    Pad(NatStr(Year(t)), 4) \o "-" \o Pad(NatStr(Month(t)), 2) \o "-" \o Pad(NatStr(Day(t)), 2)

\* time.Parse("2006-01-02", s) succeeds.
ParseDateOk(s) ==
    /\ Len(s) = 10
    /\ Ch(s, 5) = "-" /\ Ch(s, 8) = "-"
    /\ AllDigits(SubSeq(s, 1, 4)) /\ AllDigits(SubSeq(s, 6, 7)) /\ AllDigits(SubSeq(s, 9, 10))
    /\ LET y == DigitsVal(SubSeq(s, 1, 4))
           m == DigitsVal(SubSeq(s, 6, 7))
           d == DigitsVal(SubSeq(s, 9, 10))
       IN  /\ m \in 1..12
           /\ d >= 1
           /\ Civil(DaysFromCivil(y, m, d)) = <<y, m, d>>

(***************************************************************************)
(* Record store: the transactions table and its two queries                *)
(***************************************************************************)
\* sql.NullString: the column is NULL when Valid is false.
Null == [String |-> "", Valid |-> FALSE]

\* A NullString that takes a category of blanks for a category.
NullStringNoTrim(category) ==
    IF category /= "" THEN [String |-> category, Valid |-> TRUE] ELSE Null

NullString(category) ==
    IF TrimSpace(category) /= "" THEN [String |-> category, Valid |-> TRUE] ELSE Null

\* INSERT INTO transactions (cost, category, comment, date): the table after it.
insertTransaction(db, id, cost, category, comment, date) ==
    Append(db, [id |-> id, cost |-> cost, category |-> NullString(category),
                comment |-> comment, date |-> date])

\* WHERE date BETWEEN ? AND ?  (text comparison, both ends included)
Between(date, startDate, endDate) == StrLeq(startDate, date) /\ StrLeq(date, endDate)

\* ORDER BY category: NULL first, then byte order.
CategoryLess(a, b) ==
    IF ~a.Valid THEN b.Valid
    ELSE b.Valid /\ StrLess(a.String, b.String)

RECURSIVE SumCost(_)
SumCost(rows) == IF rows = <<>> THEN 0 ELSE Head(rows).cost + SumCost(Tail(rows))

RECURSIVE OrderBy(_)
OrderBy(cats) ==
    IF cats = {} THEN <<>>
    ELSE LET c == CHOOSE x \in cats : \A y \in cats \ {x} : CategoryLess(x, y)
         IN  <<c>> \o OrderBy(cats \ {c})

SelectSeq2(rows, startDate, endDate) ==
    SelectSeq(rows, LAMBDA r : Between(r.date, startDate, endDate))

\* SELECT category, SUM(cost) ... GROUP BY category ORDER BY category
costAggregration(db, startDate, endDate) ==
    LET sel  == SelectSeq2(db, startDate, endDate)
        cats == OrderBy({sel[i].category : i \in 1..Len(sel)})
    IN  [k \in 1..Len(cats) |->
            [category  |-> cats[k],
             totalCost |-> SumCost(SelectSeq(sel, LAMBDA r : r.category = cats[k]))]]

(***************************************************************************)
(* Reports: what a stats command queried and printed                       *)
(***************************************************************************)
daysOfWeek == 7

daysOfMonth == 31

NoReport ==
    [kind |-> "none", label |-> "", queries |-> <<>>, summaries |-> <<>>, rows |-> <<>>,
     width |-> 0,
     months |-> <<>>, pivot |-> {}, listing |-> {}]

\* int(a.totalCost - b.totalCost): the difference cut to its whole part.
SortCmp(a, b) ==
    LET d == a.totalCost - b.totalCost
    IN  IF d >= 0 THEN d \div 1000 ELSE 0 - ((0 - d) \div 1000)

Swap(s, i, j) == [s EXCEPT ![i] = s[j], ![j] = s[i]]

RECURSIVE SinkDown(_, _)
SinkDown(s, j) ==
    IF j > 1 /\ SortCmp(s[j], s[j - 1]) < 0 THEN SinkDown(Swap(s, j, j - 1), j - 1) ELSE s

\* slices.SortFunc on fewer than 12 elements: insertion sort.
RECURSIVE SortFunc(_, _)
SortFunc(s, i) == IF i > Len(s) THEN s ELSE SortFunc(SinkDown(s, i), i + 1)

CategoryText(c) == IF c.Valid THEN c.String ELSE "N/A"

Max(S) == CHOOSE x \in S : \A y \in S : y <= x

costAggregrationTable(db, queryType, startDate, endDate) ==
    LET allTimeSummaries == costAggregration(db, startDate, endDate)
        longest == Max({Len(allTimeSummaries[k].category.String) :
                            k \in 1..Len(allTimeSummaries)})
        maxLen  == IF longest < Len("Category") + 2 THEN Len("Category") + 2 ELSE longest
        sorted  == SortFunc(allTimeSummaries, 2)
    IN  IF Len(allTimeSummaries) = 0
        THEN [NoReport EXCEPT !.kind = "empty", !.label = queryType,
                              !.queries = <<<<startDate, endDate>>>>]
        ELSE [NoReport EXCEPT
                !.kind = "table", !.label = queryType,
                !.queries = <<<<startDate, endDate>>>>,
                !.summaries = allTimeSummaries,
                !.width = maxLen,
                !.rows = [k \in 1..Len(sorted) |->
                            [category  |-> CategoryText(sorted[k].category),
                             totalCost |-> sorted[k].totalCost,
                             cost      |-> FormatCost2(sorted[k].totalCost)]]]

allTimeCostAggregation(db, t) ==
    costAggregrationTable(db, "all time", "0000-00-00", "9999-12-31")

todayCostAggregation(db, t) ==
    costAggregrationTable(db, "today", Format(t), Format(AddDate(t, 0, 0, 1)))

thisWeekCostAggregation(db, t) ==
    costAggregrationTable(db, "this week",
        Format(AddDate(t, 0, 0, 0 - (Weekday(t) - 1))),
        Format(AddDate(t, 0, 0, daysOfWeek - Weekday(t))))

thisMonthCostAggregation(db, t) ==
    costAggregrationTable(db, "this month",
        Format(AddDate(t, 0, 0, 0 - Day(t) + 1)),
        Format(AddDate(t, 0, 1, daysOfMonth - Day(t))))

\* A last week that ends on the Monday of this week.
lastWeekThroughMonday(db, t) ==
    costAggregrationTable(db, "last week",
        Format(AddDate(t, 0, 0, 0 - (Weekday(t) - 1) - daysOfWeek)),
        Format(AddDate(t, 0, 0, 0 - Weekday(t) + 1)))

lastWeekCostAggregation(db, t) ==
    costAggregrationTable(db, "last week",
        Format(AddDate(t, 0, 0, 0 - (Weekday(t) - 1) - daysOfWeek)),
        Format(AddDate(t, 0, 0, 0 - Weekday(t))))

\* A last month taken to be the daysOfMonth days that end the previous month.
lastMonthFixedLength(db, t) ==
    costAggregrationTable(db, "last month",
        Format(AddDate(t, 0, 0, 0 - Day(t) - daysOfMonth + 1)),
        Format(AddDate(t, 0, 0, 0 - Day(t))))

lastMonthCostAggregation(db, t) ==
    costAggregrationTable(db, "last month",
        Format(AddDate(t, 0, -1, 0 - Day(t) + 1)),
        Format(AddDate(t, 0, 0, 0 - Day(t))))

\* The window monthlyCostAggregation queries for month m of the current year.
MonthWindow(t, m) ==
    <<Format(Date(Year(t), m, 1)), Format(AddDate(Date(Year(t), m + 1, 1), 0, 0, -1))>>

\* Rows are printed in map order, which Go leaves unspecified: a set of rows.
monthlyCostAggregation(db, t) ==
    LET months   == 1..Month(t)
        expenses == [m \in months |->
                        costAggregration(db, MonthWindow(t, m)[1], MonthWindow(t, m)[2])]
        uniqueCategories ==
            UNION {{CategoryText(expenses[m][k].category) : k \in 1..Len(expenses[m])} :
                   m \in months}
        Matches(x, cat) ==
            \/ x.category.Valid /\ x.category.String = cat
            \/ ~x.category.Valid /\ cat = "N/A"
        cell(cat, m) ==
            LET hit == SelectSeq(expenses[m], LAMBDA x : Matches(x, cat))
            IN  SumCost([k \in 1..Len(hit) |-> [cost |-> hit[k].totalCost]])
    IN  [NoReport EXCEPT
            !.kind = "pivot", !.label = "monthly",
            !.queries = [m \in months |-> MonthWindow(t, m)],
            !.width = Len("Category") + 2,
            !.months = [m \in months |-> m],
            !.pivot = {[category |-> cat,
                        cells |-> [m \in months |->
                                     [totalCost |-> cell(cat, m),
                                      cost |-> FormatCost2(cell(cat, m))]]] :
                       cat \in uniqueCategories}]

statsCommands == {"alltime", "today", "week", "month", "lastweek", "lastmonth", "monthly"}

\* statsHelp: one line per command of statsMap, in map order (a set).
helperMapping ==
    [alltime |-> "all-time", lastweek |-> "last week", lastmonth |-> "last month",
     today |-> "today"]

statsHelp ==
    [NoReport EXCEPT
        !.kind = "help",
        !.listing = {[cmd |-> c,
                      synonym |-> IF c \in DOMAIN helperMapping THEN helperMapping[c] ELSE ""] :
                     c \in statsCommands}]

Sanitize(stats) == TrimSpace(ToLower(ReplaceAll(ReplaceAll(stats, "-"), " ")))

statsRunner(db, stats, t) ==
    LET s == Sanitize(stats)
    IN  IF s = "help" \/ s = "-h" \/ s = "--help" THEN statsHelp
        ELSE IF s = "alltime" THEN allTimeCostAggregation(db, t)
        ELSE IF s = "today" THEN todayCostAggregation(db, t)
        ELSE IF s = "week" THEN thisWeekCostAggregation(db, t)
        ELSE IF s = "month" THEN thisMonthCostAggregation(db, t)
        ELSE IF s = "lastweek" THEN lastWeekCostAggregation(db, t)
        ELSE IF s = "lastmonth" THEN lastMonthCostAggregation(db, t)
        ELSE IF s = "monthly" THEN monthlyCostAggregation(db, t)
        ELSE [NoReport EXCEPT !.kind = "unknown", !.label = stats]

(***************************************************************************)
(* Command line: flag.FlagSet.Parse (ExitOnError) and parse()              *)
(***************************************************************************)
NoFlags == [comment |-> "", date |-> "", stats |-> "", exportCSV |-> "", importCSV |-> "",
            yeet |-> FALSE]

FlagField == [c |-> "comment", d |-> "date", w |-> "stats", e |-> "exportCSV",
              i |-> "importCSV"]

\* -name and --name are the same flag.
FlagName(tok) == IF Ch(tok, 2) = "-" THEN SubSeq(tok, 3, Len(tok)) ELSE Rest(tok)

\* Parsing stops before the first argument that is no flag, or after "--"; an
\* undefined flag (-h included) or a missing value prints the usage and exits.
RECURSIVE FlagParse(_, _)
FlagParse(argv, f) ==
    IF argv = <<>> THEN [exit |-> FALSE, f |-> f, args |-> <<>>]
    ELSE LET tok == Head(argv)
         IN  IF Len(tok) < 2 \/ Ch(tok, 1) /= "-"
             THEN [exit |-> FALSE, f |-> f, args |-> argv]
             ELSE IF tok = "--"
             THEN [exit |-> FALSE, f |-> f, args |-> Tail(argv)]
             ELSE IF FlagName(tok) = "yeet"
             THEN FlagParse(Tail(argv), [f EXCEPT !.yeet = TRUE])
             ELSE IF FlagName(tok) \in DOMAIN FlagField /\ Len(argv) >= 2
             THEN FlagParse(SubSeq(argv, 3, Len(argv)),
                            [f EXCEPT ![FlagField[FlagName(tok)]] = argv[2]])
             ELSE [exit |-> TRUE, f |-> f, args |-> <<>>]

\* parse(): the flags, then the date default and check, then the positionals.
parse(argv, t) ==
    LET p    == FlagParse(argv, NoFlags)
        date == IF p.f.date = "" THEN Format(t) ELSE p.f.date
        bad  == \/ p.exit
                \/ ~ParseDateOk(date)
                \/ Len(p.args) > 0 /\ ~ParseFloatOk(p.args[1])
    IN  [exit |-> bad,
         a    |-> [cost     |-> IF ~bad /\ Len(p.args) > 0 THEN ParseFloatVal(p.args[1]) ELSE 0,
                   category |-> IF Len(p.args) > 1 THEN p.args[2] ELSE ""],
         f    |-> [p.f EXCEPT !.date = date],
         args |-> p.args]

(***************************************************************************)
(* CSV export and import                                                   *)
(***************************************************************************)
CsvHeader == "id,cost,category,comment,date"

CsvLine(r) ==
    NatStr(r.id) \o "," \o FormatCost2(r.cost) \o "," \o r.category.String \o "," \o
    r.comment \o "," \o r.date

\* rows.Scan into a plain string fails on a NULL category: the export stops there
\* with an error, leaving the header and the lines written so far.
RECURSIVE ExportLines(_)
ExportLines(rows) ==
    IF rows = <<>> \/ ~Head(rows).category.Valid THEN <<>>
    ELSE <<CsvLine(Head(rows))>> \o ExportLines(Tail(rows))

dbExport(db) ==
    [file |-> <<CsvHeader>> \o ExportLines(db),
     err  |-> IF \E k \in 1..Len(db) : ~db[k].category.Valid THEN "infra" ELSE "nil"]

LineOk(line) ==
    LET parts == Split(line, ",")
    IN  Len(parts) >= 5 /\ ParseFloatOk(parts[2])

\* An import that skips a malformed line and goes on.
ImportSkipping(lines) == SelectSeq(lines, LineOk)

\* The data lines dbImport inserts: those before the first malformed one.
RECURSIVE ImportPrefix(_)
ImportPrefix(lines) ==
    IF lines = <<>> \/ ~LineOk(Head(lines)) THEN <<>>
    ELSE <<Head(lines)>> \o ImportPrefix(Tail(lines))

RECURSIVE InsertLines(_, _, _)
InsertLines(db, id, lines) ==
    IF lines = <<>> THEN db
    ELSE LET parts == Split(Head(lines), ",")
         IN  InsertLines(insertTransaction(db, id, ParseFloatVal(parts[2]), parts[3],
                                           parts[4], parts[5]),
                         id + 1, Tail(lines))

\* The ledger entries of the same insertTransaction calls.
LineCalls(lines) ==
    [k \in 1..Len(lines) |->
        LET parts == Split(lines[k], ",")
        IN  [cost |-> ParseFloatVal(parts[2]), category |-> parts[3],
             comment |-> parts[4], date |-> parts[5]]]

dbImport(db, id, file) ==
    LET data == Tail(file)
        good == IF file = <<>> THEN <<>> ELSE ImportPrefix(data)
    IN  [db    |-> InsertLines(db, id, good),
         calls |-> LineCalls(good),
         err   |-> IF file /= <<>> /\ Len(good) < Len(data) THEN "user" ELSE "nil"]

(***************************************************************************)
(* The wipe                                                                *)
(***************************************************************************)
\* fmt.Scanln(&confirmation) reads one word up to the newline: no word or more
\* than one word is an error.  An answer is the sequence of words typed.
\* A confirmation that takes the word in any letter case.
confirmYeetAnyCase(answer) == Len(answer) = 1 /\ ToLower(answer[1]) = "yes"

confirmYeet(answer) == Len(answer) = 1 /\ answer[1] = "yes"

yeetOrder == <<"db", "config", "log">>

\* A wipe that goes on to the next prompt after a declined one.
RECURSIVE yeetEveryStep(_, _)
yeetEveryStep(k, answers) ==
    IF k > Len(yeetOrder) THEN [asked |-> <<>>, removed |-> {}]
    ELSE LET rest == yeetEveryStep(k + 1, answers)
         IN  [asked |-> <<yeetOrder[k]>> \o rest.asked,
              removed |-> (IF confirmYeet(answers[k]) THEN {yeetOrder[k]} ELSE {})
                          \cup rest.removed]

\* The prompts asked and the files removed for the three answers.
RECURSIVE yeetFrom(_, _)
yeetFrom(k, answers) ==
    IF k > Len(yeetOrder) THEN [asked |-> <<>>, removed |-> {}]
    ELSE IF ~confirmYeet(answers[k]) THEN [asked |-> <<yeetOrder[k]>>, removed |-> {}]
    ELSE LET rest == yeetFrom(k + 1, answers)
         IN  [asked |-> <<yeetOrder[k]>> \o rest.asked,
              removed |-> {yeetOrder[k]} \cup rest.removed]

yeet(answers) == yeetFrom(1, answers)

(***************************************************************************)
(* The runs of the program: main()                                         *)
(***************************************************************************)
MaxRows == 2

NoOut ==
    [ran |-> "none", argv |-> <<>>, err |-> "nil", report |-> NoReport, inserted |-> 0,
     answers |-> <<>>, asked |-> <<>>, removed |-> {},
     goos |-> "", homeDir |-> "", databasePath |-> ""]

NoExport == [done |-> FALSE, rows |-> <<>>]

Call(cost, category, comment, date) ==
    [cost |-> cost, category |-> category, comment |-> comment, date |-> date]

\* configureLogger opens (creates) the log file; sql.Open and dbInit the database.
Started == files \cup {"log", "db"}

\* parse() printed the usage and exited: only the logger has run.
UsageExit(argv) ==
    /\ parse(argv, now).exit
    /\ files' = files \cup {"log"}
    /\ out' = [NoOut EXCEPT !.ran = "exit", !.argv = argv]
    /\ UNCHANGED <<now, store, nextId, ledger, csvFile, exported, config>>

\* case a.cost != 0
InsertCmd(argv) ==
    \E p \in {parse(argv, now)} :
        /\ ~p.exit
        /\ p.a.cost /= 0
        /\ Len(store) < MaxRows
        /\ store' = insertTransaction(store, nextId, p.a.cost, p.a.category,
                                      p.f.comment, p.f.date)
        /\ nextId' = nextId + 1
        /\ ledger' = Append(ledger, Call(p.a.cost, p.a.category, p.f.comment, p.f.date))
        /\ files' = Started
        /\ out' = [NoOut EXCEPT !.ran = "insert", !.argv = argv, !.inserted = 1]
        /\ UNCHANGED <<now, csvFile, exported, config>>

\* case f.stats != ""
StatsCmd(argv) ==
    \E p \in {parse(argv, now)} :
        /\ ~p.exit
        /\ p.a.cost = 0
        /\ p.f.stats /= ""
        /\ files' = Started
        /\ out' = [NoOut EXCEPT !.ran = "stats", !.argv = argv,
                                !.report = statsRunner(store, p.f.stats, now)]
        /\ UNCHANGED <<now, store, nextId, ledger, csvFile, exported, config>>

\* case f.exportCSV != ""
ExportCmd(argv) ==
    \E p \in {parse(argv, now)}, r \in {dbExport(store)} :
        /\ ~p.exit
        /\ p.a.cost = 0
        /\ p.f.stats = ""
        /\ p.f.exportCSV /= ""
        /\ csvFile' = r.file
        /\ exported' = [done |-> TRUE, rows |-> store]
        /\ files' = Started \cup {"csv"}
        /\ out' = [NoOut EXCEPT !.ran = "export", !.argv = argv, !.err = r.err]
        /\ UNCHANGED <<now, store, nextId, ledger, config>>

\* case f.importCSV != ""
ImportCmd(argv) ==
    \E p \in {parse(argv, now)}, r \in {dbImport(store, nextId, csvFile)} :
        /\ ~p.exit
        /\ p.a.cost = 0
        /\ p.f.stats = ""
        /\ p.f.exportCSV = ""
        /\ p.f.importCSV /= ""
        /\ files' = Started
        /\ IF "csv" \notin files
           THEN /\ out' = [NoOut EXCEPT !.ran = "import", !.argv = argv, !.err = "infra"]
                /\ UNCHANGED <<store, nextId, ledger>>
           ELSE /\ Len(r.db) <= MaxRows
                /\ store' = r.db
                /\ nextId' = nextId + Len(r.calls)
                /\ ledger' = ledger \o r.calls
                /\ out' = [NoOut EXCEPT !.ran = "import", !.argv = argv, !.err = r.err,
                                        !.inserted = Len(r.calls)]
        /\ UNCHANGED <<now, csvFile, exported, config>>

\* case f.yeet: the answers are the lines the user would type at the prompts.
YeetCmd(argv, answers) ==
    \E p \in {parse(argv, now)}, r \in {yeet(answers)} :
        /\ ~p.exit
        /\ p.a.cost = 0
        /\ p.f.stats = ""
        /\ p.f.exportCSV = ""
        /\ p.f.importCSV = ""
        /\ p.f.yeet
        /\ files' = Started \ r.removed
        /\ IF "db" \in r.removed
           THEN store' = <<>> /\ nextId' = 1 /\ ledger' = <<>>
           ELSE UNCHANGED <<store, nextId, ledger>>
        /\ out' = [NoOut EXCEPT !.ran = "yeet", !.argv = argv, !.answers = answers,
                                !.asked = r.asked, !.removed = r.removed]
        /\ UNCHANGED <<now, csvFile, exported, config>>

\* default
DefaultCmd(argv) ==
    \E p \in {parse(argv, now)} :
        /\ ~p.exit
        /\ p.a.cost = 0
        /\ p.f.stats = ""
        /\ p.f.exportCSV = ""
        /\ p.f.importCSV = ""
        /\ ~p.f.yeet
        /\ files' = Started
        /\ out' = [NoOut EXCEPT !.ran = "default", !.argv = argv]
        /\ UNCHANGED <<now, store, nextId, ledger, csvFile, exported, config>>

\* The date moves on to the next day; the terminal shows no run of the new day yet.
Tick ==
    /\ now' = now + 1
    /\ out' = NoOut
    /\ UNCHANGED <<store, nextId, ledger, csvFile, exported, files, config>>

\* A config file that names the store, as the runs above take it to do.
StoreConfig == "database=liet.db"

\* The user writes the CSV file by hand.
EditCsv(lines) ==
    /\ csvFile' = lines
    /\ exported' = NoExport
    /\ files' = files \cup {"csv"}
    /\ out' = NoOut
    /\ UNCHANGED <<now, store, nextId, ledger, config>>

Fresh ==
    /\ store = <<>>
    /\ nextId = 1
    /\ ledger = <<>>
    /\ csvFile = <<>>
    /\ exported = NoExport
    /\ config = StoreConfig
    /\ out = NoOut

(***************************************************************************)
(* Spec: inserts and the reports over them, across a month's end           *)
(***************************************************************************)
MaxDays == 1

FirstDay == DaysFromCivil(2026, 2, 28)

\* Dated today, or dated 2026-03-01 (the day after the first day); with no
\* category, a blank one, an ordinary one, and one spelled like the absent one.
InsertArgv ==
    {<<"42.6">>, <<"7", " ">>, <<"42.6", "dog">>, <<"7", "dog">>, <<"7", "N/A">>,
     <<"-d", "2026-03-01", "42.6", "dog">>,
     <<"-d", "2026-03-01", "7">>,
     <<"-d", "2026-03-01", "7.4", "N/A">>}

ReportArgs == {"alltime", "today", "monthly"}

Init ==
    /\ now = FirstDay
    /\ files = {}
    /\ Fresh

Insert == \E argv \in InsertArgv : InsertCmd(argv)

Report == \E w \in ReportArgs : StatsCmd(<<"-w", w>>)

NextDay == now < FirstDay + MaxDays /\ Tick

Next == Insert \/ Report \/ NextDay

Spec == Init /\ [][Next]_vars

(***************************************************************************)
(* Claims about the reports over inserted rows (Spec)                      *)
(***************************************************************************)
\* A category text that counts as no category: empty or blanks only.
Blank(text) == \A i \in 1..Len(text) : Ch(text, i) \in {" ", "\t"}

CategoryOf(call) ==
    IF Blank(call.category) THEN Null ELSE [String |-> call.category, Valid |-> TRUE]

ValidCall(call) == call.cost /= 0 /\ ParseDateOk(call.date)

RECURSIVE LedgerSum(_, _)
LedgerSum(calls, cat) ==
    IF calls = <<>> THEN 0
    ELSE (IF CategoryOf(Head(calls)) = cat THEN Head(calls).cost ELSE 0)
         + LedgerSum(Tail(calls), cat)

AllTimeRan == out.ran = "stats" /\ out.report.label = "all time"

\* C1: after inserts with valid inputs, the all-time aggregation returns exactly one
\* summary per distinct category of the store, the rows without a category (none
\* given, or blanks only) forming a single summary, and each summary's total is the
\* sum of the costs inserted for its category.
C1_AllTimeTotals ==
    (AllTimeRan /\ \A k \in 1..Len(ledger) : ValidCall(ledger[k])) =>
        LET sums == out.report.summaries
            cats == {CategoryOf(ledger[k]) : k \in 1..Len(ledger)}
        IN  /\ Len(sums) = Cardinality(cats)
            /\ \A c \in cats : \E k \in 1..Len(sums) : sums[k].category = c
            /\ \A k \in 1..Len(sums) :
                    sums[k].totalCost = LedgerSum(ledger, sums[k].category)

\* C1's case: two rows without a category (one given as blanks) summed into one
\* summary, beside a summary of another category.
C1_Witness ==
    /\ AllTimeRan
    /\ Len(ledger) = 2
    /\ ledger[1].category = "" /\ ledger[2].category = " "
    /\ Len(out.report.summaries) = 1
    /\ out.report.summaries[1].totalCost = 49600

\* The transactions of the table whose date lies in [startDate, endDate).
HalfOpen(db, startDate, endDate) ==
    SelectSeq(db, LAMBDA r : StrLeq(startDate, r.date) /\ StrLess(r.date, endDate))

SummarySet(sums) == {sums[k] : k \in 1..Len(sums)}

\* C4: a period's end date is exclusive: a single-period report sums, per category,
\* exactly the transactions with start <= date < end; so the today report leaves
\* out a transaction dated the following day.
C4_EndExclusive ==
    (out.ran = "stats" /\ out.report.kind \in {"table", "empty"}) =>
        LET w   == out.report.queries[1]
            sel == HalfOpen(store, w[1], w[2])
        IN  SummarySet(out.report.summaries) =
                {[category  |-> c,
                  totalCost |-> SumCost(SelectSeq(sel, LAMBDA r : r.category = c))] :
                 c \in {sel[k].category : k \in 1..Len(sel)}}

\* The total costAggregration returns for a category over a window, 0 when the
\* window has no summary of that category.
TotalOver(db, window, cat) ==
    LET sums == costAggregration(db, window[1], window[2])
    IN  IF \E k \in 1..Len(sums) : sums[k].category = cat
        THEN sums[CHOOSE k \in 1..Len(sums) : sums[k].category = cat].totalCost
        ELSE 0

\* C6: in month N the monthly pivot has N value columns (January..current month),
\* one row per distinct category seen in those months (no category shown as "N/A"),
\* and every cell is the total costAggregration returns for that category over that
\* month's first-day..last-day window, or 0: also when the store has both rows
\* without a category and rows whose category is the text "N/A".
C6_MonthlyPivot ==
    (out.ran = "stats" /\ out.report.kind = "pivot") =>
        LET months == 1..Month(now)
            window(m) == <<Format(Date(Year(now), m, 1)), Format(Date(Year(now), m + 1, 1) - 1)>>
            seen(m) == costAggregration(store, window(m)[1], window(m)[2])
            cats == UNION {{seen(m)[k].category : k \in 1..Len(seen(m))} : m \in months}
        IN  /\ Len(out.report.months) = Month(now)
            /\ Cardinality(out.report.pivot) = Cardinality(cats)
            /\ \A c \in cats : \E row \in out.report.pivot :
                    /\ row.category = (IF c.Valid THEN c.String ELSE "N/A")
                    /\ \A m \in months :
                            row.cells[m].totalCost = TotalOver(store, window(m), c)

TableRan == out.ran = "stats" /\ out.report.kind = "table"

\* C13: whatever summaries the aggregation returned, in whatever order, the rows
\* of the single-period table are printed in non-decreasing order of totalCost.
C13_RowsAscending ==
    TableRan =>
        \A k \in 1..(Len(out.report.rows) - 1) :
            out.report.rows[k].totalCost <= out.report.rows[k + 1].totalCost

\* C13 for totals that are equal or at least one whole unit apart, where cutting
\* the difference to its whole part keeps its sign.
C13_WholeUnitsApart ==
    (TableRan /\ \A i, j \in 1..Len(out.report.summaries) :
                    LET d == out.report.summaries[i].totalCost
                                 - out.report.summaries[j].totalCost
                    IN  d = 0 \/ d >= 1000 \/ d <= -1000) =>
        \A k \in 1..(Len(out.report.rows) - 1) :
            out.report.rows[k].totalCost <= out.report.rows[k + 1].totalCost

(***************************************************************************)
(* SpecPeriods: every stats argument on every weekday                      *)
(***************************************************************************)
MaxTick == 6

\* Mondays: in a leap February, across a year's end, across the end of March.
Anchors == {DaysFromCivil(2024, 2, 26), DaysFromCivil(2025, 12, 29), DaysFromCivil(2026, 3, 30)}

HelpArgs == {"help", "-h", "--help", "HELP", "--Help", "he lp", "-H", " - h"}

PeriodArgs ==
    {"alltime", "all-time", "All Time", "today", "week", "month", "lastweek", "last week",
     "Last-Month", "monthly", "blah", "h"}

InitPeriods ==
    /\ now \in Anchors
    /\ files = {}
    /\ Fresh

PeriodReport == \E w \in HelpArgs \cup PeriodArgs : StatsCmd(<<"-w", w>>)

PeriodTick == (\E a \in Anchors : a <= now /\ now < a + MaxTick) /\ Tick

NextPeriods == PeriodReport \/ PeriodTick

SpecPeriods == InitPeriods /\ [][NextPeriods]_vars

(***************************************************************************)
(* Claims about the windows and the stats arguments (SpecPeriods)          *)
(***************************************************************************)
\* The calendar days near the current date whose YYYY-MM-DD text a window selects.
Selected(window) == {d \in (now - 21)..(now + 21) : Between(Format(d), window[1], window[2])}

Min(S) == CHOOSE x \in S : \A y \in S : x <= y

SevenDays(S) == Cardinality(S) = 7 /\ S = Min(S)..Max(S)

WeekRan == out.ran = "stats" /\ out.report.label = "this week"

LastWeekRan == out.ran = "stats" /\ out.report.label = "last week"

\* C2: on every weekday the dates selected by the week window and by the lastweek
\* window of the same current date are disjoint, each is 7 consecutive days, and
\* the last day of lastweek is the day before the first day of week.
C2_WeeksContiguous ==
    (WeekRan \/ LastWeekRan) =>
        LET week == IF WeekRan THEN out.report.queries[1]
                    ELSE thisWeekCostAggregation(store, now).queries[1]
            last == IF LastWeekRan THEN out.report.queries[1]
                    ELSE lastWeekCostAggregation(store, now).queries[1]
        IN  /\ SevenDays(Selected(week))
            /\ SevenDays(Selected(last))
            /\ Selected(week) \cap Selected(last) = {}
            /\ Max(Selected(last)) + 1 = Min(Selected(week))

\* C2's case: the week report run on a Sunday whose lastweek window starts in the
\* previous year.
C2_Witness ==
    /\ WeekRan
    /\ Weekday(now) = 0
    /\ Year(now) = 2026 /\ Month(now) = 1
    /\ lastWeekCostAggregation(store, now).queries[1][1] = "2025-12-29"

LastMonthRan == out.ran = "stats" /\ out.report.label = "last month"

PrevMonthYear == IF Month(now) = 1 THEN Year(now) - 1 ELSE Year(now)

PrevMonth == IF Month(now) = 1 THEN 12 ELSE Month(now) - 1

\* The calendar days of the last ten weeks and the next three.
DaysAround == (now - 70)..(now + 21)

\* C12: on every current date the lastmonth window starts on the first day of the
\* previous calendar month and ends on that month's last day, and the dates it
\* selects are exactly the dates of the previous calendar month.
C12_LastMonthWindow ==
    LastMonthRan =>
        LET w == out.report.queries[1]
        IN  /\ w[1] = Format(DaysFromCivil(PrevMonthYear, PrevMonth, 1))
            /\ w[2] = Format(DaysFromCivil(Year(now), Month(now), 1) - 1)
            /\ {d \in DaysAround : Between(Format(d), w[1], w[2])}
                   = {d \in DaysAround : Year(d) = PrevMonthYear /\ Month(d) = PrevMonth}

\* C12's case: lastmonth run on 31 March 2026, after a February of 28 days.
C12_Witness ==
    /\ LastMonthRan
    /\ Format(now) = "2026-03-31"
    /\ out.report.queries[1] = <<"2026-02-01", "2026-02-28">>

\* Monday = 1 .. Sunday = 7.
IsoWeekday(t) == ((t + 3) % 7) + 1

\* C3: on every weekday the week window starts on the most recent Monday on or
\* before the current date and ends on the Sunday on or after it, so the current
\* date lies inside it, also on a Sunday.
C3_WeekHoldsToday ==
    WeekRan =>
        LET w == out.report.queries[1]
        IN  /\ w[1] = Format(now - (IsoWeekday(now) - 1))
            /\ w[2] = Format(now + (7 - IsoWeekday(now)))
            /\ now \in Selected(w)

\* The stats argument of the run.
StatsArg == out.argv[2]

\* C9: each of help, -h and --help, in any letter case and with spaces or hyphens
\* added, makes statsRunner print the help listing, run no aggregation query and
\* return no error.
C9_HelpArgs ==
    (out.ran = "stats" /\ StatsArg \in HelpArgs) =>
        /\ out.report.kind = "help"
        /\ out.report.queries = <<>>
        /\ out.err = "nil"

(***************************************************************************)
(* SpecCsv: export, import, hand-written files, and a wiped database       *)
(***************************************************************************)
CsvInsertArgv ==
    {<<"42.6", "dog">>, <<"1.234", "cat">>, <<"7">>, <<"-c", "hi", "7", "a,b">>}

GoodLine1 == "1,2.50,dog,,2026-02-01"

GoodLine2 == "9,4,cat,hi,2026-02-02"

SampleFiles ==
    {<<>>,
     <<CsvHeader>>,
     <<CsvHeader, GoodLine1, GoodLine2>>,
     <<CsvHeader, GoodLine1, "2,3,x", GoodLine2>>,
     <<CsvHeader, "1,abc,dog,,2026-02-01", GoodLine2>>,
     <<CsvHeader, GoodLine1, "">>,
     <<GoodLine1, "3,1.5,dog,a,b,2026-02-03">>}

InitCsv ==
    /\ now = FirstDay
    /\ files = {}
    /\ Fresh

CsvInsert == \E argv \in CsvInsertArgv : InsertCmd(argv)

CsvExport == ExportCmd(<<"-e", "t.csv">>)

CsvImport == ImportCmd(<<"-i", "t.csv">>)

CsvEdit == \E lines \in SampleFiles : EditCsv(lines)

\* The wipe, confirmed for the database only.
CsvWipe == YeetCmd(<<"-yeet">>, <<<<"yes">>, <<"no">>, <<"no">>>>)

NextCsv == CsvInsert \/ CsvExport \/ CsvImport \/ CsvEdit \/ CsvWipe

SpecCsv == InitCsv /\ [][NextCsv]_vars

RowTuple(r) == <<r.cost, r.category, r.comment, r.date>>

CountOf(db, tuple) == Cardinality({k \in 1..Len(db) : RowTuple(db[k]) = tuple})

SameTuples(a, b) ==
    \A tuple \in {RowTuple(a[k]) : k \in 1..Len(a)} \cup {RowTuple(b[k]) : k \in 1..Len(b)} :
        CountOf(a, tuple) = CountOf(b, tuple)

\* C5: whatever rows the inserts left in the store, dbExport succeeds, and dbImport
\* of the exported file into an empty store succeeds and leaves the same multiset of
\* (cost, category, comment, date), ids aside.
C5_RoundTrip ==
    [][/\ out'.ran = "export" => out'.err = "nil"
       /\ (out'.ran = "import" /\ store = <<>> /\ exported.done /\ "csv" \in files) =>
              (out'.err = "nil" /\ SameTuples(store', exported.rows))]_vars

\* The text of a line's n-th comma-separated field.
RECURSIVE FieldOf(_, _)
FieldOf(line, n) ==
    LET upto == IF \E i \in 1..Len(line) : Ch(line, i) = ","
                THEN (CHOOSE i \in 1..Len(line) :
                        Ch(line, i) = "," /\ \A j \in 1..(i - 1) : Ch(line, j) /= ",") - 1
                ELSE Len(line)
    IN  IF n = 1 THEN SubSeq(line, 1, upto)
        ELSE FieldOf(SubSeq(line, upto + 2, Len(line)), n - 1)

Commas(line) == Cardinality({i \in 1..Len(line) : Ch(line, i) = ","})

\* A malformed data line: fewer than five fields, or a cost that is no number.
Malformed(line) == Commas(line) < 4 \/ ~ParseFloatOk(FieldOf(line, 2))

MainArgv ==
    {<<>>, <<"5", "food">>, <<"0", "food">>,
     <<"-c", "hi", "-d", "2026-01-02", "9.6">>,
     <<"-w", "alltime">>, <<"-w", "alltime", "5", "food">>,
     <<"-e", "t.csv">>, <<"-e", "t.csv", "5", "food">>,
     <<"-i", "t.csv">>, <<"-yeet">>, <<"-yeet", "5", "food">>,
     <<"-d", "2026-01-02">>, <<"-d", "2026-01-02", "-w", "alltime">>,
     <<"-d", "2026-01-02", "-yeet">>,
     <<"abc">>, <<"-d", "yesterday", "5">>, <<"-h">>}

MainAnswers == {<<<<"yes">>, <<"yes">>, <<"yes">>>>, <<<<"no">>, <<"yes">>, <<"yes">>>>}

InitMain ==
    /\ now = FirstDay
    /\ files \in {{}, {"config"}}
    /\ Fresh

MainInsert == \E argv \in MainArgv : InsertCmd(argv)

MainStats == \E argv \in MainArgv : StatsCmd(argv)

MainExport == \E argv \in MainArgv : ExportCmd(argv)

MainImport == \E argv \in MainArgv : ImportCmd(argv)

MainYeet == \E argv \in MainArgv, answers \in MainAnswers : YeetCmd(argv, answers)

MainDefault == \E argv \in MainArgv : DefaultCmd(argv)

MainUsage == \E argv \in MainArgv : UsageExit(argv)

NextMain ==
    MainInsert \/ MainStats \/ MainExport \/ MainImport \/ MainYeet \/ MainDefault
    \/ MainUsage

SpecMain == InitMain /\ [][NextMain]_vars

(***************************************************************************)
(* SpecWipe: the wipe under every combination of answers                   *)
(***************************************************************************)
\* What the user types at a prompt: the words of one line.
Answers == {<<"yes">>, <<"no">>, <<"Yes">>, <<>>, <<"yes", "sir">>}

InitWipe ==
    /\ now = FirstDay
    /\ files \in {{}, {"config"}}
    /\ Fresh

WipeInsert == InsertCmd(<<"5", "food">>)

WipeYeet == \E answers \in [1..3 -> Answers] : YeetCmd(<<"-yeet">>, answers)

\* The user writes a config file.
WriteConfig ==
    /\ "config" \notin files
    /\ files' = files \cup {"config"}
    /\ out' = NoOut
    /\ UNCHANGED <<now, store, nextId, ledger, csvFile, exported, config>>

NextWipe == WipeInsert \/ WipeYeet \/ WriteConfig

SpecWipe == InitWipe /\ [][NextWipe]_vars

Confirmed(answer) == answer = <<"yes">>

\* C7 as stated: three independent confirm-then-delete steps, database, config,
\* log: every prompt is asked whatever the earlier answers, and exactly the files
\* whose own prompt was confirmed are deleted.
C7_IndependentSteps ==
    out.ran = "yeet" =>
        /\ out.asked = <<"db", "config", "log">>
        /\ out.removed = {yeetOrder[k] : k \in {i \in 1..3 : Confirmed(out.answers[i])}}
        /\ out.removed \cap files = {}

\* The number of prompts confirmed before the first one that is not.
LeadingYes(answers) ==
    Max({n \in 0..3 : \A k \in 1..n : Confirmed(answers[k])})

\* C7 amended: the wipe asks for the database file, the config file and the log
\* file in that order and stops at the first prompt that is not confirmed: the files
\* confirmed before it are deleted, and neither that file nor any later one is asked
\* about further or deleted.
C7_StopsAtFirstDecline ==
    out.ran = "yeet" =>
        LET n == LeadingYes(out.answers)
        IN  /\ out.asked = SubSeq(yeetOrder, 1, IF n < 3 THEN n + 1 ELSE 3)
            /\ out.removed = {yeetOrder[k] : k \in 1..n}
            /\ out.removed \cap files = {}
            /\ ({"db", "log"} \ out.removed) \subseteq files
            /\ out.err = "nil"

\* C7's case: answers no, yes, yes: only the first prompt is asked and the config
\* file, which existed, is still there with the database and the log.
C7_Witness ==
    /\ out.ran = "yeet"
    /\ out.answers = <<<<"no">>, <<"yes">>, <<"yes">>>>
    /\ out.asked = <<"db">>
    /\ {"db", "config", "log"} \subseteq files

\* C14: in every run of the wipe a file is removed only if its own prompt was
\* asked in that run and answered with the one word "yes"; a prompt answered with
\* anything else, or whose answer could not be read (no word, several words),
\* removes nothing: its file stays, and the run returns no error.
C14_OwnPromptOnly ==
    [][out'.ran = "yeet" =>
        \A k \in 1..3 :
            LET f       == yeetOrder[k]
                asked   == k <= Len(out'.asked)
                saidYes == out'.answers[k] = <<"yes">>
            IN  /\ (f \in out'.removed \/ (f \in files /\ f \notin files'))
                       => (asked /\ saidYes)
                /\ (asked /\ ~saidYes)
                       => /\ f \notin out'.removed
                          /\ f \in files => f \in files'
                          /\ out'.err = "nil"]_vars

\* C14's case: the database prompt confirmed, then an empty line at the config
\* prompt: only the database file is gone, the config file is still there.
C14_Witness ==
    /\ out.ran = "yeet"
    /\ out.answers = <<<<"yes">>, <<>>, <<"yes">>>>
    /\ out.asked = <<"db", "config">>
    /\ out.removed = {"db"}
    /\ "db" \notin files
    /\ {"config", "log"} \subseteq files

\* The run was given a positional cost that parses as a number.
CostGiven(argv) ==
    LET p == FlagParse(argv, NoFlags)
    IN  ~p.exit /\ Len(p.args) > 0 /\ ParseFloatOk(p.args[1])

\* C10: a run given a positional cost that parses as a number, 0 included, with or
\* without a category, does one thing: it inserts one row with that cost, that
\* category, the comment flag and the date flag (today without one), and runs no
\* report, export, import or wipe, whatever other flags are present.
C10_CostMeansInsert ==
    (out.ran /= "none" /\ CostGiven(out.argv)) =>
        LET p == FlagParse(out.argv, NoFlags)
        IN  /\ out.ran = "insert"
            /\ out.inserted = 1
            /\ store /= <<>>
            /\ LET r == store[Len(store)]
               IN  /\ r.cost = ParseFloatVal(p.args[1])
                   /\ r.category = CategoryOf([category |-> IF Len(p.args) > 1
                                                             THEN p.args[2] ELSE ""])
                   /\ r.comment = p.f.comment
                   /\ r.date = (IF p.f.date = "" THEN Format(now) ELSE p.f.date)

(***************************************************************************)
(* The config collaborator: loadUserConfig                                 *)
(***************************************************************************)
keyValuePairs == 2

defaultDatabaseFile(goos) ==
    IF goos = "windows" THEN "AppData\\Local\\liet.db" ELSE ".local/share/liet.db"

\* filepath.Join of a non-empty directory and a relative file name.
Join(goos, dir, file) == dir \o (IF goos = "windows" THEN "\\" ELSE "/") \o file

HasPrefix(s, prefix) ==
    Len(s) >= Len(prefix) /\ SubSeq(s, 1, Len(prefix)) = prefix

\* strings.SplitN(line, "=", keyValuePairs): the text before the first "=" and,
\* when there is one, everything after it.
SplitN(line) ==
    IF \E i \in 1..Len(line) : Ch(line, i) = "="
    THEN LET i == CHOOSE j \in 1..Len(line) :
                      Ch(line, j) = "=" /\ \A k \in 1..(j - 1) : Ch(line, k) /= "="
         IN  <<SubSeq(line, 1, i - 1), SubSeq(line, i + 1, Len(line))>>
    ELSE <<line>>

\* The loop over the lines of the file, u being the config read so far.
RECURSIVE ConfigLines(_, _)
ConfigLines(lines, u) ==
    IF lines = <<>> THEN [databasePath |-> u, err |-> "nil"]
    ELSE LET line == Head(lines)
             parts == SplitN(line)
         IN  IF TrimSpace(line) = "" \/ HasPrefix(TrimSpace(line), "#")
             THEN ConfigLines(Tail(lines), u)
             ELSE IF parts[1] /= "database" THEN ConfigLines(Tail(lines), u)
             ELSE IF Len(parts) < keyValuePairs THEN [databasePath |-> u, err |-> "user"]
             ELSE IF TrimSpace(parts[2]) = "" THEN [databasePath |-> u, err |-> "user"]
             ELSE ConfigLines(Tail(lines), TrimSpace(parts[2]))

\* homeOk: os.UserHomeDir succeeded; exists: the config file is there to read.
loadUserConfig(goos, homeOk, homeDir, exists, text) ==
    IF ~homeOk THEN [databasePath |-> "", err |-> "infra"]
    ELSE IF ~exists
    THEN [databasePath |-> Join(goos, homeDir, defaultDatabaseFile(goos)), err |-> "nil"]
    ELSE ConfigLines(Split(text, "\n"), "")

(***************************************************************************)
(* SpecConfig: config files written, removed and loaded                    *)
(***************************************************************************)
ConfigTexts ==
    {"", "\n", "# liet\n", "#database=a.db", "editor=vi\n", "editor=vi\ncolor=on",
     "database=a.db", "database=a.db\n", "database= a.db \n", "# liet\ndatabase=a.db",
     "database=a.db\ndatabase=b.db", "editor=vi\ndatabase=b.db\n", "database=a=b",
     "database", "database=", "database=  \n", " database=a.db", "database =a.db",
     "Database=a.db", "databases=a.db"}

Platforms == {<<"linux", "/home/ana">>, <<"linux", "/root">>, <<"windows", "C:\\Users\\ana">>}

InitConfig ==
    /\ now = FirstDay
    /\ files = {}
    /\ Fresh

ConfigWrite ==
    \E text \in ConfigTexts :
        /\ config' = text
        /\ files' = files \cup {"config"}
        /\ out' = NoOut
        /\ UNCHANGED <<now, store, nextId, ledger, csvFile, exported>>

ConfigRemove ==
    /\ "config" \in files
    /\ files' = files \ {"config"}
    /\ out' = NoOut
    /\ UNCHANGED <<now, store, nextId, ledger, csvFile, exported, config>>

ConfigLoad ==
    \E pf \in Platforms, homeOk \in BOOLEAN :
        \E r \in {loadUserConfig(pf[1], homeOk, pf[2], "config" \in files, config)} :
            /\ out' = [NoOut EXCEPT !.ran = "config", !.goos = pf[1], !.homeDir = pf[2],
                                    !.err = r.err, !.databasePath = r.databasePath]
            /\ UNCHANGED <<now, store, nextId, ledger, csvFile, exported, files, config>>

NextConfig == ConfigWrite \/ ConfigRemove \/ ConfigLoad

SpecConfig == InitConfig /\ [][NextConfig]_vars

\* The lines of the config file that are neither blank nor comments.
KeyLines == SelectSeq(Split(config, "\n"),
                      LAMBDA l : TrimSpace(l) /= "" /\ ~HasPrefix(TrimSpace(l), "#"))

\* The values the file gives the `database` key.
DatabaseValues ==
    {TrimSpace(SubSeq(KeyLines[i], 10, Len(KeyLines[i]))) :
        i \in {j \in 1..Len(KeyLines) : HasPrefix(KeyLines[j], "database=")}}

DatabaseSet == "config" \in files /\ DatabaseValues /= {}

DefaultPath == Join(out.goos, out.homeDir, defaultDatabaseFile(out.goos))

\* C11: whenever loadUserConfig returns without error the storage path is not
\* empty: it is a value the config file gives the `database` key when the file
\* sets it, and the platform's default path under the home directory whenever it
\* is unset, be the file missing or present without a `database` line.
C11_ResolvedPath ==
    (out.ran = "config" /\ out.err = "nil") =>
        /\ out.databasePath /= ""
        /\ DatabaseSet => out.databasePath \in DatabaseValues
        /\ ~DatabaseSet => out.databasePath = DefaultPath

\* C11 for a missing config file alone, the part the code keeps.
C11_MissingFileDefault ==
    (out.ran = "config" /\ out.err = "nil" /\ "config" \notin files) =>
        out.databasePath = DefaultPath

====
